---------------------------- MODULE Spec2Model ----------------------------
(***************************************************************************)
(* ISS tracker (src/server.py): a background poll loop that fetches the    *)
(* station's position, stores samples in the SQLite table iss_positions    *)
(* and optionally sweeps old rows, next to Flask endpoints that read the   *)
(* table (and, for /api/current, also append to it).                       *)
(***************************************************************************)
EXTENDS Integers, Sequences, FiniteSets, TLC

(* ------------------------------ bounds -------------------------------- *)

\* Seconds per calendar day in the model's clock (86400 scaled down).
DayLen == 2

\* Last calendar day the clock and the upstream timestamps reach.
MaxDay == 2

\* Rows the poll loop and /api/current insert in one run of the main model.
MaxId == 2

\* Cap of the count of consecutive failed polls.
MaxFails == 2

\* Rows of a store the request models start from.
MaxRows == 2

\* Largest page, per_page and day_number a request carries.
MaxPage == 2

MaxTime == (MaxDay + 1) * DayLen - 1

(* --------------------------- configuration ---------------------------- *)

\* FETCH_INTERVAL_SEC as configured for the modelled run.
FETCH_INTERVAL == 1800

\* MAX_RETENTION_DAYS as configured for the modelled run.
MAX_RETENTION_DAYS == 1

(* ------------------------- values and helpers ------------------------- *)

\* Python's None / an absent dict key is the empty sequence, a present
\* value v the one-element sequence <<v>>.
None == <<>>

Some(v) == <<v>>

Max(a, b) == IF a >= b THEN a ELSE b

Min(a, b) == IF a <= b THEN a ELSE b

\* JSON values of an upstream payload.
Num(n) == [k |-> "num", v |-> n]

NumStr(n) == [k |-> "numstr", v |-> n]

Junk == [k |-> "str", v |-> 0]

Null == [k |-> "null", v |-> 0]

\* strftime("%Y-%m-%d %H:%M:%S") of a unix time: the fixed-width text is the
\* pair <<calendar day, second of the day>>.
strftime(u) == <<u \div DayLen, u % DayLen>>

\* ts_utc.split(" ")[0]
DayOf(text) == text[1]

\* Comparison of two fixed-width timestamp texts, as SQLite compares TEXT.
TextLess(a, b) == a[1] < b[1] \/ (a[1] = b[1] /\ a[2] < b[2])

\* Comparison of a day text with another.
DayLess(a, b) == a < b

(* ------------------------------ adapter ------------------------------- *)

Raise == [ok |-> FALSE, v |-> 0]

Return(v) == [ok |-> TRUE, v |-> v]

\* float(x) / int(x) of a JSON value, or of None when the key is absent.
ToNumber(opt) ==
    IF opt = None THEN Raise
    ELSE IF opt[1].k \in {"num", "numstr"} THEN Return(opt[1].v)
    ELSE Raise

\* int(data.get("timestamp", time.time()))
TimestampOf(data, clock) ==
    IF data.timestamp = None THEN Return(clock) ELSE ToNumber(data.timestamp)

parse_wther_resp_NoAltitude(data, clock) ==
    LET ts  == TimestampOf(data, clock)
        lat == ToNumber(data.latitude)
        lon == ToNumber(data.longitude)
    IN  IF ~ts.ok \/ ~lat.ok \/ ~lon.ok THEN None
        ELSE Some([latitude |-> lat.v, longitude |-> lon.v,
                   altitude |-> None, ts_utc |-> strftime(ts.v)])

parse_wther_resp(data, clock) ==
    LET ts  == TimestampOf(data, clock)
        lat == ToNumber(data.latitude)
        lon == ToNumber(data.longitude)
        alt == IF data.altitude # None /\ data.altitude[1].k # "null"
               THEN ToNumber(data.altitude) ELSE Return(0)
    IN  IF ~ts.ok \/ ~lat.ok \/ ~lon.ok \/ ~alt.ok THEN None
        ELSE Some([latitude |-> lat.v, longitude |-> lon.v,
                   altitude |-> IF data.altitude # None /\ data.altitude[1].k # "null"
                                THEN Some(alt.v) ELSE None,
                   ts_utc |-> strftime(ts.v)])

parse_open_notify(data, clock) ==
    LET ts  == TimestampOf(data, clock)
        pos == data.iss_position[1]
        lat == ToNumber(pos.latitude)
        lon == ToNumber(pos.longitude)
    IN  IF ~ts.ok \/ ~lat.ok \/ ~lon.ok THEN None
        ELSE Some([latitude |-> lat.v, longitude |-> lon.v,
                   altitude |-> None, ts_utc |-> strftime(ts.v)])

\* data.get("iss_position") is truthy: the key is present and holds a
\* non-empty object.
PositionTruthy(data) ==
    data.iss_position # None /\ data.iss_position[1].k = "obj"

\* One call of fetch_iss_position: `out` is what requests.get and resp.json
\* gave (a timeout, a non-2xx status, a body that is not JSON, a JSON body
\* that is no object, or a JSON object), `clock` is time.time().  The result
\* is the dict returned, or None when anything raised.
fetch_iss_position(out, clock) ==
    IF out.kind # "json" THEN None
    ELSE IF PositionTruthy(out.data) THEN parse_open_notify(out.data, clock)
    ELSE parse_wther_resp(out.data, clock)

(* ------------------------------- state -------------------------------- *)

VARIABLES
    db,               \* table iss_positions: its rows, in insertion order
    nextId,           \* the next AUTOINCREMENT id
    now,              \* the clock (unix seconds)
    enable_cleanup,   \* ENABLE_CLEANUP
    pc,               \* where background_loop stands
    stop,             \* stop_event: "unset", or where the loop stood when it was set
    cleanup_counter,  \* background_loop's cleanup_counter
    deleted,          \* cur.rowcount of the sweep of this tick, None when none ran
    consecFails,      \* polls in a row that stored nothing (capped at MaxFails)
    waited,           \* the loop has waited since its last fetch
    resp,             \* the HTTP response being delivered, None when there is none
    payload,          \* adapter model: the upstream body under test
    parsed,           \* adapter model: what fetch_iss_position returned for it
    pager,            \* request model: a client walking the pages of one day
    stats             \* what an /api/stats request under way has read so far

vars == <<db, nextId, now, enable_cleanup, pc, stop, cleanup_counter, deleted,
          consecFails, waited, resp, payload, parsed, pager, stats>>

(* ------------------------------- store -------------------------------- *)

Row(id, pos) ==
    [id |-> id, latitude |-> pos.latitude, longitude |-> pos.longitude,
     altitude |-> pos.altitude, timestamp |-> pos.ts_utc, day |-> DayOf(pos.ts_utc)]

\* The columns every read endpoint selects besides id.
SampleOf(r) ==
    [latitude |-> r.latitude, longitude |-> r.longitude, altitude |-> r.altitude,
     ts_utc |-> r.timestamp, day |-> r.day]

Rows(table) == {table[i] : i \in 1..Len(table)}

Ids(table) == {table[i].id : i \in 1..Len(table)}

\* save_position as INSERT OR REPLACE keyed by the timestamp: a stored
\* sample with the same timestamp is replaced.
save_position_Replace(table, id, pos, ok) ==
    IF ok THEN [db |-> Append(SelectSeq(table, LAMBDA r : r.timestamp # pos.ts_utc),
                              Row(id, pos)),
                nextId |-> id + 1]
    ELSE [db |-> table, nextId |-> id]

\* save_position: one INSERT, or nothing when the store raised (ok = FALSE).
save_position(table, id, pos, ok) ==
    IF ok THEN [db |-> Append(table, Row(id, pos)), nextId |-> id + 1]
    ELSE [db |-> table, nextId |-> id]

\* The cutoff text of cleanup_old_data and api_last3days.
Cutoff(clock) == strftime(clock - MAX_RETENTION_DAYS * DayLen)

\* cleanup_old_data with the comparison off by one: timestamp <= cutoff.
cleanup_old_data_Inclusive(table, clock, enabled, ok) ==
    IF ~enabled \/ ~ok THEN [db |-> table, deleted |-> None]
    ELSE LET kept == SelectSeq(table, LAMBDA r : TextLess(Cutoff(clock), r.timestamp))
         IN  [db |-> kept, deleted |-> Some(Len(table) - Len(kept))]

\* cleanup_old_data: DELETE FROM iss_positions WHERE timestamp < cutoff, with
\* cur.rowcount; nothing when cleanup is disabled or the store raised.
cleanup_old_data(table, clock, enabled, ok) ==
    IF ~enabled \/ ~ok THEN [db |-> table, deleted |-> None]
    ELSE LET kept == SelectSeq(table, LAMBDA r : ~TextLess(r.timestamp, Cutoff(clock)))
         IN  [db |-> kept, deleted |-> Some(Len(table) - Len(kept))]

\* max(1, int(3600 / max(1, FETCH_INTERVAL)))
Threshold == Max(1, 3600 \div Max(1, FETCH_INTERVAL))

(* ------------------------- upstream responses ------------------------- *)

FlatBody(ts, lat, lon, alt, vel) ==
    [iss_position |-> None, timestamp |-> ts, latitude |-> lat, longitude |-> lon,
     altitude |-> alt, velocity |-> vel]

NestedBody(ts, position) ==
    [iss_position |-> Some(position), timestamp |-> ts, latitude |-> None,
     longitude |-> None, altitude |-> None, velocity |-> None]

Position(lat, lon) == [k |-> "obj", latitude |-> lat, longitude |-> lon]

Json(data) == [kind |-> "json", data |-> data]

Failure(kind) == [kind |-> kind, data |-> None]

\* What one poll of the upstream can give the loop and /api/current: the
\* request or the body failing, a flat body without timestamp, a flat body
\* without latitude, and a nested body carrying the oldest timestamp.
Outcomes ==
    {Failure("timeout"), Failure("http_error"), Failure("not_json"), Failure("not_object")}
    \cup {Json(FlatBody(None, Some(Num(51)), Some(Num(0)), Some(Num(408)), Some(Num(27600))))}
    \cup {Json(FlatBody(None, None, Some(Num(0)), Some(Num(408)), Some(Num(27600))))}
    \cup {Json(NestedBody(Some(Num(0)), Position(Some(NumStr(51)), Some(NumStr(0)))))}

(* ----------------------------- poll loop ------------------------------ *)

Bump(n) == Min(n + 1, MaxFails)

\* The loop's inserts stay within the ids the model hands out.
CanInsert == nextId <= MaxId

\* fetch_iss_position returned `pos`; the loop saves it when it is a dict.
LoopSave(pos, ok) ==
    LET stored == pos # None /\ ok
        after  == IF pos = None THEN [db |-> db, nextId |-> nextId]
                  ELSE save_position(db, nextId, pos[1], ok)
    IN  /\ stored => CanInsert
        /\ db' = after.db
        /\ nextId' = after.nextId
        /\ consecFails' = IF stored THEN 0 ELSE Bump(consecFails)

\* background_loop, line 209: the initial fetch is issued.
LoopInitialFetchIssue ==
    /\ pc = "start"
    /\ pc' = "initial_inflight"
    /\ waited' = FALSE
    /\ UNCHANGED <<db, nextId, now, enable_cleanup, stop, cleanup_counter, deleted,
                   consecFails, resp, payload, parsed, pager, stats>>

\* background_loop, lines 209-216: the initial fetch returns and is saved.
LoopInitialFetchReturn ==
    /\ pc = "initial_inflight"
    /\ \E out \in Outcomes, ok \in BOOLEAN :
          LoopSave(fetch_iss_position(out, now), ok)
    /\ pc' = "check"
    /\ UNCHANGED <<now, enable_cleanup, stop, cleanup_counter, deleted, waited,
                   resp, payload, parsed, pager, stats>>

\* LoopTickStart with the while test dropped (while True).
LoopTickStart_IgnoresStop ==
    /\ pc = "check"
    /\ pc' = "inflight"
    /\ waited' = FALSE
    /\ UNCHANGED <<db, nextId, now, enable_cleanup, stop, cleanup_counter, deleted,
                   consecFails, resp, payload, parsed, pager, stats>>

\* background_loop, line 217 and 219: the while test, and on passing it the
\* fetch of the tick is issued.
LoopTickStart ==
    /\ pc = "check"
    /\ IF stop # "unset"
       THEN pc' = "done" /\ waited' = waited
       ELSE pc' = "inflight" /\ waited' = FALSE
    /\ UNCHANGED <<db, nextId, now, enable_cleanup, stop, cleanup_counter, deleted,
                   consecFails, resp, payload, parsed, pager, stats>>

\* LoopFetchReturn without the try/except of fetch_iss_position and of the
\* loop body: a failed fetch ends the thread.
LoopFetchReturn_Raises ==
    /\ pc = "inflight"
    /\ \E out \in Outcomes, ok \in BOOLEAN :
          /\ LoopSave(fetch_iss_position(out, now), ok)
          /\ pc' = IF fetch_iss_position(out, now) = None THEN "done" ELSE "cleanup"
    /\ UNCHANGED <<now, enable_cleanup, stop, cleanup_counter, deleted, waited,
                   resp, payload, parsed, pager, stats>>

\* background_loop, lines 219-226: the tick's fetch returns and is saved.
LoopFetchReturn ==
    /\ pc = "inflight"
    /\ \E out \in Outcomes, ok \in BOOLEAN :
          LoopSave(fetch_iss_position(out, now), ok)
    /\ pc' = "cleanup"
    /\ UNCHANGED <<now, enable_cleanup, stop, cleanup_counter, deleted, waited,
                   resp, payload, parsed, pager, stats>>

\* background_loop, lines 228-236: the periodic sweep.
LoopCleanup ==
    /\ pc = "cleanup"
    /\ IF enable_cleanup /\ cleanup_counter + 1 >= Threshold
       THEN \E ok \in BOOLEAN :
               LET swept == cleanup_old_data(db, now, enable_cleanup, ok)
               IN  /\ db' = swept.db
                   /\ deleted' = swept.deleted
                   /\ cleanup_counter' = 0
       ELSE /\ cleanup_counter' = IF enable_cleanup THEN cleanup_counter + 1
                                  ELSE cleanup_counter
            /\ deleted' = None
            /\ db' = db
    /\ pc' = "wait"
    /\ UNCHANGED <<nextId, now, enable_cleanup, stop, consecFails, waited,
                   resp, payload, parsed, pager, stats>>

\* background_loop, line 238: stop_event.wait(FETCH_INTERVAL) returns, the
\* interval having elapsed or the event being set.
LoopWaitReturn ==
    /\ pc = "wait"
    /\ pc' = "check"
    /\ waited' = TRUE
    /\ UNCHANGED <<db, nextId, now, enable_cleanup, stop, cleanup_counter, deleted,
                   consecFails, resp, payload, parsed, pager, stats>>

\* stop_event.set(), by whoever shuts the process down.
StopSignal ==
    /\ stop = "unset"
    /\ pc # "done"
    /\ stop' = pc
    /\ UNCHANGED <<db, nextId, now, enable_cleanup, pc, cleanup_counter, deleted,
                   consecFails, waited, resp, payload, parsed, pager, stats>>

\* The clock advances.
Tick ==
    /\ now < MaxTime
    /\ now' = now + 1
    /\ UNCHANGED <<db, nextId, enable_cleanup, pc, stop, cleanup_counter, deleted,
                   consecFails, waited, resp, payload, parsed, pager, stats>>

(* ----------------------------- queries -------------------------------- *)

\* ORDER BY timestamp ASC.  SQL leaves the order of rows with equal
\* timestamps open; SQLite gives them in rowid order (idx_timestamp holds
\* the rowid after the key), and the same order every time the query runs
\* on the same rows.
RowBefore(r, q) ==
    TextLess(r.timestamp, q.timestamp) \/ (r.timestamp = q.timestamp /\ r.id < q.id)

RECURSIVE OrderedAsc(_)
OrderedAsc(S) ==
    IF S = {} THEN <<>>
    ELSE LET r == CHOOSE x \in S : \A q \in S \ {x} : RowBefore(x, q)
         IN  <<r>> \o OrderedAsc(S \ {r})

Reverse(seq) == [i \in 1..Len(seq) |-> seq[Len(seq) + 1 - i]]

\* ORDER BY timestamp DESC
OrderedDesc(S) == Reverse(OrderedAsc(S))

\* LIMIT lim OFFSET off
LimitOffset(seq, lim, off) ==
    SubSeq(seq, off + 1, Min(Len(seq), off + lim))

\* SELECT DISTINCT day ... ORDER BY day ASC, as a sequence of days.
RECURSIVE DaysAsc(_)
DaysAsc(D) ==
    IF D = {} THEN <<>>
    ELSE LET d == CHOOSE x \in D : \A y \in D : ~DayLess(y, x)
         IN  <<d>> \o DaysAsc(D \ {d})

DaySet(table) == {r.day : r \in Rows(table)}

OfDay(table, day) == {r \in Rows(table) : r.day = day}

(* ---------------------------- /api/current ---------------------------- *)

Response(endpoint, args, status, body, storeFailed) ==
    Some([endpoint |-> endpoint, args |-> args, status |-> status, body |-> body,
          storeFailed |-> storeFailed])

\* api_current's fallback: SELECT ... ORDER BY timestamp DESC LIMIT 1 gave
\* the first row of `listing`.
LastSaved(listing, readOk) ==
    IF ~readOk THEN Response("current", <<>>, 500, <<>>, TRUE)
    ELSE IF listing # <<>>
         THEN Response("current", <<>>, 200, <<SampleOf(listing[1])>>, FALSE)
         ELSE Response("current", <<>>, 404, <<>>, FALSE)

\* GET /api/current: a live fetch, saved when possible and returned; when the
\* fetch gave nothing, the last saved row.  `upstream` is what the fetch can
\* give, `limit` bounds the ids the model hands out.
api_current(upstream, limit) ==
    /\ resp = None
    /\ \E out \in upstream, ok \in BOOLEAN :
          LET pos == fetch_iss_position(out, now)
          IN  IF pos # None
              THEN LET after == save_position(db, nextId, pos[1], ok)
                   IN  /\ ok => nextId <= limit
                       /\ db' = after.db
                       /\ nextId' = after.nextId
                       /\ resp' = Response("current", <<>>, 200, pos, ~ok)
              ELSE /\ resp' = LastSaved(OrderedDesc(Rows(db)), ok)
                   /\ UNCHANGED <<db, nextId>>
    /\ UNCHANGED <<now, enable_cleanup, pc, stop, cleanup_counter, deleted,
                   consecFails, waited, payload, parsed, pager, stats>>

(* --------------------------- read endpoints --------------------------- *)

\* A query-string value: absent, a number's text, or any other text.
Arg(n) == Some(NumStr(n))

BadArg == Some(Junk)

\* int(request.args.get(name, default))
IntArg(arg, default) == IF arg = None THEN Return(default) ELSE ToNumber(arg)

SamplesOf(listing) == [i \in 1..Len(listing) |-> SampleOf(listing[i])]

\* (total + per_page - 1) // per_page if total else 1
TotalPages(total, per_page) ==
    IF total # 0 THEN (total + per_page - 1) \div per_page ELSE 1

\* The rows api_all_records pages over.
Filtered(table, day) == IF day = None THEN Rows(table) ELSE OfDay(table, day[1])

\* api_all_records, `listing` being what ORDER BY timestamp DESC gave for
\* the rows selected.  Its records carry the id.
AllRecords(table, a, listing, readOk) ==
    LET page     == IntArg(a.page, 1)
        per_page == IntArg(a.per_page, 1000)
    IN  IF ~page.ok \/ ~per_page.ok
        THEN Response("all_records", a, 500, <<>>, FALSE)
        ELSE IF ~readOk THEN Response("all_records", a, 500, <<>>, TRUE)
        ELSE LET pg == Max(1, page.v)
                 pp == Min(5000, Max(1, per_page.v))
             IN  Response("all_records", a, 200,
                          [records |-> LimitOffset(listing, pp, (pg - 1) * pp),
                           total |-> Len(listing),
                           page |-> pg,
                           per_page |-> pp,
                           total_pages |-> TotalPages(Len(listing), pp),
                           available_days |-> Reverse(DaysAsc(DaySet(table)))],
                          FALSE)

\* GET /api/all-records
api_all_records(Args) ==
    /\ resp = None
    /\ \E a \in Args, readOk \in BOOLEAN :
          resp' = AllRecords(db, a, OrderedDesc(Filtered(db, a.day)), readOk)
    /\ UNCHANGED <<db, nextId, now, enable_cleanup, pc, stop, cleanup_counter,
                   deleted, consecFails, waited, payload, parsed, pager, stats>>

\* The up to three most recent distinct days.
RecentDays(table) ==
    LET days == Reverse(DaysAsc(DaySet(table)))
    IN  {days[i] : i \in 1..Min(3, Len(days))}

\* The rows api_last3days selects.
Last3Rows(table, clock, enabled) ==
    IF enabled THEN {r \in Rows(table) : ~TextLess(r.timestamp, Cutoff(clock))}
    ELSE {r \in Rows(table) : r.day \in RecentDays(table)}

\* GET /api/last3days
api_last3days ==
    /\ resp = None
    /\ \E readOk \in BOOLEAN :
          IF ~readOk THEN resp' = Response("last3days", <<>>, 500, <<>>, TRUE)
          ELSE resp' = Response("last3days", <<>>, 200,
                                SamplesOf(OrderedAsc(Last3Rows(db, now, enable_cleanup))), FALSE)
    /\ UNCHANGED <<db, nextId, now, enable_cleanup, pc, stop, cleanup_counter,
                   deleted, consecFails, waited, payload, parsed, pager, stats>>

\* get_first_collection_date: MIN(day), None for an empty table or when the
\* store raised.
get_first_collection_date(table, ok) ==
    IF ~ok \/ table = <<>> THEN None ELSE Some(DaysAsc(DaySet(table))[1])

\* get_available_days: the distinct days ascending, [] when the store raised.
get_available_days(table, ok) ==
    IF ok THEN DaysAsc(DaySet(table)) ELSE <<>>

\* GET /api/stats reads the table three times, each SELECT a read of its
\* own: no transaction spans them, and get_first_collection_date opens a
\* connection of its own.  The loop's thread and other requests may write
\* between two of the reads.

\* SELECT COUNT(*) FROM iss_positions
StatsCount ==
    /\ resp = None
    /\ stats = None
    /\ \E readOk \in BOOLEAN :
          IF readOk
          THEN /\ stats' = Some([total |-> Len(db), per_day |-> None])
               /\ resp' = resp
          ELSE /\ stats' = None
               /\ resp' = Response("stats", <<>>, 500, <<>>, TRUE)
    /\ UNCHANGED <<db, nextId, now, enable_cleanup, pc, stop, cleanup_counter,
                   deleted, consecFails, waited, payload, parsed, pager>>

\* SELECT day, COUNT(*) AS cnt FROM iss_positions GROUP BY day
PerDay(table) == [d \in DaySet(table) |-> Cardinality(OfDay(table, d))]

StatsPerDay ==
    /\ resp = None
    /\ stats # None
    /\ stats[1].per_day = None
    /\ \E readOk \in BOOLEAN :
          IF readOk
          THEN /\ stats' = Some([stats[1] EXCEPT !.per_day = Some(PerDay(db))])
               /\ resp' = resp
          ELSE /\ stats' = None
               /\ resp' = Response("stats", <<>>, 500, <<>>, TRUE)
    /\ UNCHANGED <<db, nextId, now, enable_cleanup, pc, stop, cleanup_counter,
                   deleted, consecFails, waited, payload, parsed, pager>>

\* first_day = get_first_collection_date(), then the response is built.
StatsAnswer ==
    /\ resp = None
    /\ stats # None
    /\ stats[1].per_day # None
    /\ \E firstOk \in BOOLEAN :
          resp' = Response("stats", <<>>, 200,
                      [total_records |-> stats[1].total,
                       records_per_day |-> stats[1].per_day[1],
                       collection_interval_seconds |-> FETCH_INTERVAL,
                       cleanup_enabled |-> enable_cleanup,
                       first_collection_date |-> get_first_collection_date(db, firstOk),
                       total_unique_days |-> Cardinality(DOMAIN stats[1].per_day[1])],
                      ~firstOk)
    /\ stats' = None
    /\ UNCHANGED <<db, nextId, now, enable_cleanup, pc, stop, cleanup_counter,
                   deleted, consecFails, waited, payload, parsed, pager>>

api_stats ==
    \/ StatsCount
    \/ StatsPerDay
    \/ StatsAnswer

\* export_csv after get_available_days gave `days`; `listing` is what
\* generate_csv_string's ORDER BY timestamp ASC gave, `csvOk` whether its
\* query went through (it returns "" otherwise).
ExportCsv(table, a, days, daysOk, listing, csvOk) ==
    LET idx == ToNumber(a.day_number)
    IN  IF days = <<>>
        THEN Response("export_csv", a, 404, <<>>, ~daysOk)
        ELSE IF a.day_number # None /\ ~idx.ok
        THEN Response("export_csv", a, 400, <<>>, FALSE)
        ELSE IF a.day_number # None /\ ~(0 <= idx.v - 1 /\ idx.v - 1 < Len(days))
        THEN Response("export_csv", a, 404, <<>>, FALSE)
        ELSE IF ~csvOk
        THEN Response("export_csv", a, 500, <<>>, TRUE)
        ELSE Response("export_csv", a, 200, listing, FALSE)

\* The day generate_csv_string is given: that of day_number when there is
\* one in range, else the day parameter.
DayParam(a, days) ==
    LET idx == ToNumber(a.day_number)
    IN  IF a.day_number # None /\ idx.ok /\ 0 <= idx.v - 1 /\ idx.v - 1 < Len(days)
        THEN Some(days[idx.v])
        ELSE a.day

\* GET /api/export/csv
export_csv(Args) ==
    /\ resp = None
    /\ \E a \in Args, daysOk \in BOOLEAN, csvOk \in BOOLEAN :
          LET days == get_available_days(db, daysOk)
          IN  resp' = ExportCsv(db, a, days, daysOk,
                                OrderedAsc(Filtered(db, DayParam(a, days))), csvOk)
    /\ UNCHANGED <<db, nextId, now, enable_cleanup, pc, stop, cleanup_counter,
                   deleted, consecFails, waited, payload, parsed, pager, stats>>

\* One entry of export_days_info's list: the day's count, MIN(timestamp) and
\* MAX(timestamp).
DayInfo(table, days, i) ==
    LET of == OfDay(table, days[i])
    IN  [day_number |-> i, date |-> days[i], record_count |-> Cardinality(of),
         first_record |-> (CHOOSE r \in of : \A q \in of : ~TextLess(q.timestamp, r.timestamp)).timestamp,
         last_record |-> (CHOOSE r \in of : \A q \in of : ~TextLess(r.timestamp, q.timestamp)).timestamp]

\* GET /api/export/days
export_days_info ==
    /\ resp = None
    /\ \E daysOk \in BOOLEAN, readOk \in BOOLEAN, firstOk \in BOOLEAN :
          LET days == get_available_days(db, daysOk)
          IN  IF ~readOk THEN resp' = Response("export_days", <<>>, 500, <<>>, TRUE)
              ELSE resp' = Response("export_days", <<>>, 200,
                              [total_days |-> Len(days),
                               first_collection_date |-> get_first_collection_date(db, firstOk),
                               cleanup_enabled |-> enable_cleanup,
                               days |-> [i \in 1..Len(days) |-> DayInfo(db, days, i)]],
                              ~daysOk \/ ~firstOk)
    /\ UNCHANGED <<db, nextId, now, enable_cleanup, pc, stop, cleanup_counter,
                   deleted, consecFails, waited, payload, parsed, pager, stats>>

\* GET / and GET /database: a static file, or the fallback text when it
\* cannot be sent.
static_page ==
    /\ resp = None
    /\ \E fileOk \in BOOLEAN :
          \/ resp' = Response("index", <<>>, 200, <<>>, FALSE)
          \/ resp' = Response("database", <<>>, IF fileOk THEN 200 ELSE 404, <<>>, FALSE)
    /\ UNCHANGED <<db, nextId, now, enable_cleanup, pc, stop, cleanup_counter,
                   deleted, consecFails, waited, payload, parsed, pager, stats>>

\* Requests without parameters, and one with a page that is no number.
PlainPages == {[page |-> pg, per_page |-> None, day |-> None] : pg \in {None, BadArg}}

PlainExports == {[day |-> None, day_number |-> None]}

\* The response has reached the client.
Delivered ==
    /\ resp # None
    /\ resp' = None
    /\ UNCHANGED <<db, nextId, now, enable_cleanup, pc, stop, cleanup_counter,
                   deleted, consecFails, waited, payload, parsed, pager, stats>>

Loop ==
    \/ LoopInitialFetchIssue
    \/ LoopInitialFetchReturn
    \/ LoopTickStart
    \/ LoopFetchReturn
    \/ LoopCleanup
    \/ LoopWaitReturn

Init ==
    /\ db = <<>>
    /\ nextId = 1
    /\ now = DayLen
    /\ enable_cleanup \in BOOLEAN
    /\ pc = "start"
    /\ stop = "unset"
    /\ cleanup_counter = 0
    /\ deleted = None
    /\ consecFails = 0
    /\ waited = FALSE
    /\ resp = None
    /\ payload = None
    /\ parsed = None
    /\ pager = None
    /\ stats = None

\* The poll loop alone, with the clock and the stop signal.
LoopNext ==
    \/ Loop
    \/ StopSignal
    \/ Tick

LoopSpec == Init /\ [][LoopNext]_vars

\* The loop's thread keeps running: a fetch returns (requests.get has a
\* timeout), and stop_event.wait returns when the interval has elapsed.
FairLoopSpec == LoopSpec /\ WF_vars(Loop)

\* The service as a whole: the poll loop in its thread beside the requests
\* of a client that sends them one after another.
Next ==
    \/ Loop
    \/ StopSignal
    \/ Tick
    \/ (stats = None /\ api_current(Outcomes, MaxId))
    \/ (stats = None /\ api_last3days)
    \/ (stats = None /\ api_all_records(PlainPages))
    \/ api_stats
    \/ (stats = None /\ export_csv(PlainExports))
    \/ (stats = None /\ export_days_info)
    \/ (stats = None /\ static_page)
    \/ Delivered

Spec == Init /\ [][Next]_vars

(* --------------------------- request models --------------------------- *)

\* The samples a store left by earlier polls holds.
StoredPositions ==
    {fetch_iss_position(out, t)[1] :
        out \in {o \in Outcomes : fetch_iss_position(o, 0) # None}, t \in {DayLen}}

\* The tables of up to MaxRows rows, ids in insertion order.
Stores ==
    UNION {{[i \in 1..n |-> Row(i, f[i])] : f \in [1..n -> StoredPositions]} : n \in 0..MaxRows}

\* The service with a table left by earlier polls, before the loop's first
\* fetch.
HttpInit ==
    /\ db \in Stores
    /\ nextId = Len(db) + 1
    /\ now = DayLen + 1
    /\ enable_cleanup \in BOOLEAN
    /\ pc = "start"
    /\ stop = "unset"
    /\ cleanup_counter = 0
    /\ deleted = None
    /\ consecFails = 0
    /\ waited = FALSE
    /\ resp = None
    /\ payload = None
    /\ parsed = None
    /\ pager = None
    /\ stats = None

PageArgs == {None, BadArg} \cup {Arg(n) : n \in (-1)..MaxPage}

DayArgs == {None} \cup {Some(d) : d \in 0..(MaxDay + 1)}

WidePages == [page : PageArgs, per_page : PageArgs, day : DayArgs]

WideExports == [day : DayArgs, day_number : PageArgs]

HttpNext ==
    \/ (stats = None /\ api_current(Outcomes, MaxRows + 1))
    \/ (stats = None /\ api_last3days)
    \/ (stats = None /\ api_all_records(WidePages))
    \/ api_stats
    \/ (stats = None /\ export_csv(WideExports))
    \/ (stats = None /\ export_days_info)
    \/ (stats = None /\ static_page)
    \/ Delivered

HttpSpec == HttpInit /\ [][HttpNext]_vars

\* A client walks the pages of one day with a fixed per_page: it asks for
\* page 1, then for the next page while the last answer's total_pages says
\* there is one.  Each request is answered by api_all_records.
PageOf(table, day, per_page, page, listing) ==
    AllRecords(table, [page |-> Arg(page), per_page |-> Arg(per_page), day |-> Some(day)],
               listing, TRUE)[1].body

IdsOf(records) == [i \in 1..Len(records) |-> records[i].id]

PagerStart ==
    /\ pager = None
    /\ \E day \in DaySet(db), per_page \in 1..MaxPage :
          LET body == PageOf(db, day, per_page, 1, OrderedDesc(OfDay(db, day)))
          IN  pager' = Some([day |-> day, per_page |-> per_page, next |-> 2,
                             total_pages |-> body.total_pages,
                             seen |-> IdsOf(body.records),
                             first |-> {r.id : r \in OfDay(db, day)}])
    /\ UNCHANGED <<db, nextId, now, enable_cleanup, pc, stop, cleanup_counter,
                   deleted, consecFails, waited, resp, payload, parsed, stats>>

PagerNext ==
    /\ pager # None
    /\ pager[1].next <= pager[1].total_pages
    /\ LET body == PageOf(db, pager[1].day, pager[1].per_page, pager[1].next,
                          OrderedDesc(OfDay(db, pager[1].day)))
       IN  pager' = Some([pager[1] EXCEPT !.next = @ + 1,
                                          !.total_pages = body.total_pages,
                                          !.seen = @ \o IdsOf(body.records)])
    /\ UNCHANGED <<db, nextId, now, enable_cleanup, pc, stop, cleanup_counter,
                   deleted, consecFails, waited, resp, payload, parsed, stats>>

\* The upstream answers that carry no timestamp of their own: the sample is
\* stamped with the clock.
Unstamped == {o \in Outcomes : o.kind = "json" => o.data.timestamp = None}

\* The walk with /api/current appending between the page requests; nothing
\* evicts.
PageNext ==
    \/ api_current(Unstamped, MaxRows + 1)
    \/ Delivered
    \/ PagerStart
    \/ PagerNext

PageSpec == HttpInit /\ [][PageNext]_vars

\* /api/stats requests with the writers running beside them: the poll loop
\* with its sweep in its own thread, and /api/current in another request
\* thread.
StatsNext ==
    \/ Loop
    \/ Tick
    \/ api_current(Outcomes, MaxId)
    \/ api_stats
    \/ Delivered

StatsSpec == Init /\ [][StatsNext]_vars

(* ---------------------------- adapter model --------------------------- *)

EmptyObject == [k |-> "empty", latitude |-> None, longitude |-> None]

NestedValues == {None, Some(NumStr(51)), Some(Junk)}

PositionValues ==
    {None, Some(Null), Some(EmptyObject)}
    \cup {Some(Position(lat, lon)) : lat \in NestedValues, lon \in NestedValues}

\* The bodies the adapter is tried on.
Bodies ==
    [iss_position : PositionValues,
     timestamp : {None, Some(Num(DayLen + 1)), Some(Junk)},
     latitude : {None, Some(Num(52)), Some(Junk)},
     longitude : {None, Some(Num(1))},
     altitude : {None, Some(Null), Some(Num(408)), Some(Junk)},
     velocity : {None, Some(Num(27600))}]

AdapterInit ==
    /\ payload \in {Some(Json(b)) : b \in Bodies}
                   \cup {Some(Failure(k)) : k \in {"timeout", "http_error", "not_json", "not_object"}}
    /\ parsed = None
    /\ now \in {DayLen, MaxTime}
    /\ db = <<>>
    /\ nextId = 1
    /\ enable_cleanup = FALSE
    /\ pc = "start"
    /\ stop = "unset"
    /\ cleanup_counter = 0
    /\ deleted = None
    /\ consecFails = 0
    /\ waited = FALSE
    /\ resp = None
    /\ pager = None
    /\ stats = None

\* fetch_iss_position is called on the body.
Adapt ==
    /\ parsed = None
    /\ parsed' = Some(fetch_iss_position(payload[1], now))
    /\ UNCHANGED <<db, nextId, now, enable_cleanup, pc, stop, cleanup_counter,
                   deleted, consecFails, waited, resp, payload, pager, stats>>

AdapterSpec == AdapterInit /\ [][Adapt]_vars

(* ------------------------- poll loop properties ----------------------- *)

\* A step in which a fetch of the loop returns.
FetchReturns == pc \in {"initial_inflight", "inflight"} /\ pc' # pc

\* A step in which the loop issues a fetch.
FetchIssued == pc' \in {"initial_inflight", "inflight"} /\ pc' # pc

\* A step in which the loop passes its while test and starts a tick.
TickStarts == pc = "check" /\ pc' = "inflight"

\* C1: a poll whose fetch or store write fails stores nothing and leaves the
\* loop running (it goes on to the next step of its cycle); after any number
\* of failed polls in a row the loop has not ended unless it was told to
\* stop; and, the stop signal not being set, the wait after the failed polls
\* is followed by another fetch.
C1_FailedPollKeepsLooping ==
    /\ [][(FetchReturns /\ consecFails' > 0) =>
              (db' = db /\ nextId' = nextId /\ pc' \in {"check", "cleanup"})]_vars
    /\ []((consecFails > 0 /\ stop = "unset") => pc # "done")
    /\ ((consecFails = MaxFails /\ pc = "wait" /\ stop = "unset")
            ~> (pc = "inflight" \/ stop # "unset"))

\* C1 witness: two polls in a row have failed, the loop has waited, and the
\* third fetch is in flight.
C1_Witness ==
    consecFails = MaxFails /\ pc = "inflight" /\ stop = "unset" /\ db = <<>>

\* C2: once the stop signal is set the loop starts no further tick; when the
\* signal arrives during the wait or during a fetch in flight, no fetch is
\* issued afterwards, and when it arrives during the wait nothing is written
\* to the store afterwards; and the loop ends.
C2_StopEndsLoop ==
    /\ [][(stop # "unset") => ~TickStarts]_vars
    /\ [][(stop \in {"wait", "inflight", "initial_inflight"}) => (~FetchIssued)]_vars
    /\ [][(stop = "wait") => (db' = db /\ nextId' = nextId)]_vars
    /\ (stop # "unset" ~> pc = "done")

\* C2 witness: the signal came while a tick's fetch was in flight, the fetch
\* completed and was stored, and the loop has ended.
C2_Witness ==
    stop = "inflight" /\ pc = "done" /\ db # <<>>

\* A step in which the sweep of cleanup_old_data ran.
SweepRuns == pc = "cleanup" /\ pc' = "wait" /\ deleted' # None

C10_WaitBetweenFetches ==
    [][TickStarts => waited]_vars

(* --------------------------- store properties ------------------------- *)

\* A step in which a request is answered / one to /api/current is.
Answered == resp = None /\ resp' # None

CurrentAnswered == Answered /\ resp'[1].endpoint = "current"

\* The sample appended last, while it is still stored.
LastAppended == {r \in Rows(db) : r.id = nextId - 1}

\* /api/current answers with the last saved row (its live fetch failed and
\* the read went through): that body carries the day column, the live one
\* does not.
LastSavedAnswered ==
    /\ CurrentAnswered
    /\ resp'[1].status = 200
    /\ "day" \in DOMAIN resp'[1].body[1]

\* C4 as written: when the sample appended last is read back by the 'last
\* saved' query of /api/current, with no append in between, the sample
\* returned equals it.
C4_LatestIsLastAppended ==
    [][(LastSavedAnswered /\ LastAppended # {}) =>
          \A r \in LastAppended : resp'[1].body[1] = SampleOf(r)]_vars

\* C7 as written: a response to a request during which a store read or write
\* failed is a server error.
C7_StoreFailureIsServerError ==
    (resp # None /\ resp[1].storeFailed) => resp[1].status >= 500

\* C9: in every step, a stored sample stays stored with the same fields
\* unless the step is the eviction sweep; a new sample enters only in a step
\* of the poll loop's save or of /api/current, one at a time and under a
\* fresh id; every other step leaves the table as it is; and with cleanup
\* disabled no sample leaves and the count does not decrease.
C9_SamplesImmutable ==
    [][/\ (~SweepRuns) => (\A r \in Rows(db) : r \in Rows(db'))
       /\ \A r \in Rows(db), q \in Rows(db') : (r.id = q.id) => (r = q)
       /\ (Rows(db') \ Rows(db) # {}) =>
             /\ FetchReturns \/ CurrentAnswered
             /\ Cardinality(Rows(db') \ Rows(db)) = 1
             /\ \A q \in Rows(db') \ Rows(db) : q.id = nextId /\ q.id \notin Ids(db)
       /\ (db' # db) => (FetchReturns \/ CurrentAnswered \/ SweepRuns)
       /\ (~enable_cleanup) => (Rows(db) \subseteq Rows(db') /\ Len(db') >= Len(db))
      ]_vars

\* C9 witness: the loop has stored samples, a sweep has removed one and kept
\* one, and a read request is being answered.
C9_Witness ==
    /\ deleted # None /\ deleted[1] >= 1
    /\ db # <<>>
    /\ resp # None /\ resp[1].endpoint = "stats"

(* -------------------------- request properties ------------------------ *)

\* A page or per_page that is no number, or is zero or negative.
BadPageArg(arg) == arg # None /\ (~ToNumber(arg).ok \/ ToNumber(arg).v <= 0)

\* A day that no stored sample has.
UnknownDay(day) == day # None /\ day[1] \notin DaySet(db)

BadParameters(r) ==
    IF r.endpoint = "all_records"
    THEN BadPageArg(r.args.page) \/ BadPageArg(r.args.per_page) \/ UnknownDay(r.args.day)
    ELSE r.endpoint = "export_csv" /\ UnknownDay(r.args.day)

\* C6 as written: a request to api_all_records or export_csv with an invalid
\* page, per_page or an unknown day, no store operation failing, is answered
\* with a 4xx status and leaves the store as it is.
C6_BadParametersAreClientErrors ==
    [][(Answered /\ ~resp'[1].storeFailed /\ BadParameters(resp'[1])) =>
          (resp'[1].status \in 400..499 /\ db' = db)]_vars

\* C5 as written: when the walk over a day's pages is over, no sample was
\* returned twice and every sample the day had when the walk began was
\* returned.
C5_PagesPartitionTheDay ==
    (pager # None /\ pager[1].next > pager[1].total_pages) =>
        /\ \A i, j \in 1..Len(pager[1].seen) :
              (pager[1].seen[i] = pager[1].seen[j]) => (i = j)
        /\ pager[1].first \subseteq {pager[1].seen[i] : i \in 1..Len(pager[1].seen)}

(* -------------------------- adapter properties ------------------------ *)

IsNumber(opt) == opt # None /\ opt[1].k \in {"num", "numstr"}

GoodTimestamp(data) == data.timestamp = None \/ IsNumber(data.timestamp)

\* A valid payload of shape A: a nested position object with numeric
\* latitude and longitude.
ShapeA(data) ==
    /\ data.iss_position # None
    /\ data.iss_position[1].k = "obj"
    /\ IsNumber(data.iss_position[1].latitude)
    /\ IsNumber(data.iss_position[1].longitude)
    /\ GoodTimestamp(data)

\* A valid payload of shape B: no nested position field, flat numeric
\* latitude, longitude, altitude and velocity.
ShapeB(data) ==
    /\ data.iss_position = None
    /\ IsNumber(data.latitude) /\ IsNumber(data.longitude)
    /\ IsNumber(data.altitude) /\ IsNumber(data.velocity)
    /\ GoodTimestamp(data)

\* The adapter has been applied to a JSON object.
Adapted == parsed # None /\ payload[1].kind = "json"

RECURSIVE SumCounts(_)
\* The sum of the counts of a records_per_day object.
SumCounts(per) ==
    IF DOMAIN per = {} THEN 0
    ELSE LET d == CHOOSE x \in DOMAIN per : TRUE
         IN  per[d] + SumCounts([e \in DOMAIN per \ {d} |-> per[e]])

\* An /api/stats request has been answered with the statistics, none of its
\* reads having failed.
StatsAnswered ==
    resp # None /\ resp[1].endpoint = "stats" /\ resp[1].status = 200 /\ ~resp[1].storeFailed

\* C11 as written: every /api/stats response describes one state of the
\* store, whatever writes alongside the request: total_records is the sum of
\* the records_per_day counts, total_unique_days the number of its keys, and
\* first_collection_date its smallest key, or null when it has none.
C11_StatsDescribeOneState ==
    StatsAnswered =>
        LET body == resp[1].body
            per == body.records_per_day
        IN  /\ body.total_records = SumCounts(per)
            /\ body.total_unique_days = Cardinality(DOMAIN per)
            /\ body.first_collection_date =
                   IF DOMAIN per = {} THEN None ELSE Some(DaysAsc(DOMAIN per)[1])

====
